---------------------------- MODULE Spec2Model ----------------------------
(***************************************************************************)
(* Model of the Fixposition driver core                                    *)
(*   src/fixposition_driver_lib/src/fixposition_driver.cpp                 *)
(* The driver owns one connection (TCP socket or serial device), reads a   *)
(* chunk of bytes per RunOnce cycle, scans the chunk for NOV_B (binary)    *)
(* and NMEA/FP_A (ascii) frames and hands every frame to its converter.    *)
(*                                                                         *)
(* The two frame matchers IsNovMessage / IsNmeaMessage live in parser.hpp, *)
(* which is not part of the sources at hand; they are modelled from the    *)
(* written contract of the frame scanner (spec.md 3, 4.2, 6).              *)
(***************************************************************************)
EXTENDS Integers, Sequences, FiniteSets, TLC

VARIABLES
    type,               \* params_.fp_output.type: "TCP" | "SERIAL"
    client_fd_,         \* descriptor, -1 when none
    connection_status_, \* result of connect(); 0 = success
    wire,               \* environment: the bytes the sensor sends, in order
    pos,                \* environment: how many bytes of wire were read so far
    rd,                 \* outcome of the read of the last RunOnce
    base,               \* stream offset of readBuf[0] in the last read
    trace,              \* events of the scan loop of the last read
    dispatched,         \* history: every frame handed to a converter
    ret,                \* what the last RunOnce returned: "true" | "false" | "none"
    op,                 \* last operation executed
    pre,                \* client_fd_ / connection_status_ before the last op
    sys,                \* system calls issued by the last operation
    byteWise,           \* history: every data read so far returned 1 byte
    clean,              \* history: no RunOnce has returned false so far
    rawdmi_,            \* the outbound wheel-speed frame, kept between calls
    speeds,             \* argument of the last WsCallback
    message,            \* bytes the last WsCallback handed to the transport
    formats,            \* params_.fp_output.formats
    a_converters_,      \* the converter registry: key -> converter
    convLog,            \* history: every converter created, with its key
    initRet,            \* what InitializeConverters returned
    bestgnsspos_obs_,   \* number of observers of BESTGNSSPOS frames
    invoked,            \* history: every converter / observer invocation
    baudrate,           \* params_.fp_output.baudrate
    speed,              \* the speed of the last cfsetospeed, 0 before the first
    connRet,            \* what the last Connect returned
    rosCall,            \* the last call of a conversion to ROS and its arguments
    rosOut              \* what that call published or broadcast

\* the state of the outbound encoder
wsVars == << rawdmi_, speeds, message >>

\* the state of the registry and of the dispatch
regVars == << formats, a_converters_, convLog, initRet, bestgnsspos_obs_, invoked >>

\* the serial parameters and the result of Connect
serVars == << baudrate, speed, connRet >>

\* the conversions to ROS
rosVars == << rosCall, rosOut >>

vars == << type, client_fd_, connection_status_, wire, pos, rd, base, trace,
           dispatched, ret, op, pre, sys, byteWise, clean, wsVars, regVars, serVars,
           rosVars >>

---------------------------------------------------------------------------
(* Bounds of the model *)

\* number of segments (frames, noise bytes, ...) of a wire, for the scanner
MaxSegs == 2
\* number of segments of a wire, for the life cycle of the connection
MaxConnSegs == 1
\* number of readings of a WsCallback call
MaxSpeeds == 5
\* number of names in the configured list of formats
MaxFormats == 3
\* number of segments of a wire, for the dispatch
MaxDispSegs == 1
\* largest GNSS fix status of the two receivers
MaxGnssStatus == 8
\* largest number of subscribers of a publisher
MaxSubscribers == 2

---------------------------------------------------------------------------
(* Bytes and frames on the wire *)

Min(S) == CHOOSE x \in S : \A y \in S : x <= y

MinOf(a, b) == IF a <= b THEN a ELSE b

RECURSIVE SumSeq(_)
SumSeq(s) == IF s = << >> THEN 0 ELSE s[1] + SumSeq(Tail(s))

\* sizeof(readBuf)
ReadBufSize == 8192

\* '$', start of an ascii sentence
Dollar == 36
\* '*', checksum delimiter of an ascii sentence
Star == 42
\* ','
Comma == 44

\* the 3-byte sync marker of a binary frame
NovSync == << 170, 68, 19 >>
\* sync(3) + payload length(1) + message id(2)
NovHeaderLen == 6
\* trailing CRC32
NovCrcLen == 4

\* MessageId::BESTGNSSPOS
BESTGNSSPOS == 1429

\* Stand-in for the vendor CRC32 (the polynomial is a frozen vendor table):
\* a 32-bit checksum of the bytes, little-endian (the sum of the bytes of a
\* frame stays below 2^31).
Crc32(bytes) ==
    LET c == SumSeq(bytes)
    IN  << c % 256, (c \div 256) % 256, (c \div 65536) % 256, (c \div 16777216) % 256 >>

\* A well-formed binary frame with message id `id` and the given payload.
NovFrame(id, payload) ==
    LET head == NovSync \o << Len(payload), id % 256, id \div 256 >> \o payload
    IN  head \o Crc32(head)

\* Binary matcher: > 0 size of the frame at b[1], 0 not a frame here,
\* < 0 incomplete.
IsNovMessage(b) ==
    LET n == Len(b) IN
    IF \E i \in 1..MinOf(n, 3) : b[i] # NovSync[i] THEN 0
    ELSE IF n < NovHeaderLen THEN -1
    ELSE LET total == NovHeaderLen + b[4] + NovCrcLen IN
         IF n < total THEN -1
         ELSE IF SubSeq(b, total - NovCrcLen + 1, total)
                   = Crc32(SubSeq(b, 1, total - NovCrcLen))
              THEN total
              ELSE 0

\* Ascii matcher: > 0 size of the sentence at b[1] ('$' ... '*' and the two
\* checksum characters), 0 not a sentence here, < 0 incomplete.
IsNmeaMessage(b) ==
    LET n == Len(b) IN
    IF b[1] # Dollar THEN 0
    ELSE LET stars == { i \in 2..n : b[i] = Star } IN
         IF stars = {} THEN -1
         ELSE IF n < Min(stars) + 2 THEN -1
              ELSE Min(stars) + 2


---------------------------------------------------------------------------
(* The scan loop of ReadAndPublish *)

Ev(k, off, res) == [k |-> k, off |-> off, res |-> res]

\* faulty variant: the loop with the break on a negative result left out
NovBranchNoBreak(msg_size) ==
    IF msg_size > 0 THEN "publish" ELSE "next"

\* What the loop does with the result of IsNovMessage.
NovBranch(msg_size) ==
    IF msg_size > 0 THEN "publish"
    ELSE IF msg_size < 0 THEN "break"
    ELSE "next"

\* What the loop does with the result of IsNmeaMessage.
NmeaBranch(msg_size) ==
    IF msg_size > 0 THEN "publish"
    ELSE IF msg_size < 0 THEN "break"
    ELSE "next"

\* faulty variant: resynchronisation that skips two bytes
NoMatchNextSkip(start_id) == start_id + 2

\* faulty variant: resynchronisation that forgets the increment
NoMatchNextStuck(start_id) == start_id

\* "No Match, increment by 1"
NoMatchNext(start_id) == start_id + 1

\* One iteration of `while (start_id < rv)`: the matcher calls, the dispatch
\* and the advance it performs, in order, and the next start_id (-1: break).
ScanStep(buf, start_id) ==
    LET b   == SubSeq(buf, start_id + 1, Len(buf))
        nov == IsNovMessage(b)
        nb  == NovBranch(nov)
        nm  == IsNmeaMessage(b)
        mb  == NmeaBranch(nm)
        c1  == << Ev("IsNov", start_id, nov) >>
        c2  == c1 \o << Ev("IsNmea", start_id, nm) >>
    IN  IF nb = "publish"
        THEN [ev |-> c1 \o << Ev("NovPub", start_id, nov) >>, next |-> start_id + nov]
        ELSE IF nb = "break"
        THEN [ev |-> c1, next |-> -1]
        ELSE IF mb = "publish"
        THEN [ev |-> c2 \o << Ev("NmeaPub", start_id, nm) >>, next |-> start_id + nm]
        ELSE IF mb = "break"
        THEN [ev |-> c2, next |-> -1]
        ELSE [ev |-> c2 \o << Ev("Adv", start_id, NoMatchNext(start_id) - start_id) >>,
              next |-> NoMatchNext(start_id)]

\* The whole loop from start_id on.  `fuel` counts the iterations left of the
\* rv iterations a loop that consumes a byte per iteration can need; a loop
\* that wants more is cut with a "Stall" event.
RECURSIVE ScanLoop(_, _, _)
ScanLoop(buf, start_id, fuel) ==
    IF ~(start_id < Len(buf)) THEN << >>
    ELSE IF fuel = 0 THEN << Ev("Stall", start_id, 0) >>
    ELSE LET s == ScanStep(buf, start_id) IN
         IF s.next = -1 THEN s.ev
         ELSE s.ev \o ScanLoop(buf, s.next, fuel - 1)

IsPub(e) == e.k \in {"NovPub", "NmeaPub"}

\* The frame a dispatch event hands over, by its place in the stream.
FrameOf(e, off0) ==
    [kind |-> IF e.k = "NovPub" THEN "NOV" ELSE "NMEA", at |-> off0 + e.off, size |-> e.res]

\* faulty variant: a dispatcher that hands the newest frame over first
PublishFront(log, fr) == << fr >> \o log

\* NovConvertAndPublish / NmeaConvertAndPublish is called with the frame.
Publish(log, fr) == Append(log, fr)

RECURSIVE PublishAll(_, _, _)
PublishAll(log, tr, off0) ==
    IF tr = << >> THEN log
    ELSE IF IsPub(Head(tr))
         THEN PublishAll(Publish(log, FrameOf(Head(tr), off0)), Tail(tr), off0)
         ELSE PublishAll(log, Tail(tr), off0)

---------------------------------------------------------------------------
(* The environment: descriptors, read results, wires *)

\* descriptors socket() / open() can return on success
Fds == {0, 3}

NoRead == [cause |-> "none", rv |-> 0, eagain |-> FALSE]

\* What recv() / read() can return.  cause is the environment's truth.
ReadResults ==
    { [cause |-> "data", rv |-> n, eagain |-> FALSE]
        : n \in 1..MinOf(Len(wire) - pos, ReadBufSize) }
    \cup { [cause |-> "closed", rv |-> 0, eagain |-> FALSE],
           [cause |-> "error",  rv |-> -1, eagain |-> FALSE] }
    \cup ( IF type = "TCP"
           \* recv(MSG_DONTWAIT) with nothing to read: -1, errno EAGAIN
           THEN { [cause |-> "nodata", rv |-> -1, eagain |-> TRUE] }
           \* read() with VMIN = 0, VTIME = 50 and nothing to read: 0
           ELSE { [cause |-> "nodata", rv |-> 0, eagain |-> FALSE] } )

\* return value of ReadAndPublish for a read result
ReadAndPublishRet(r) ==
    IF r.rv = 0 THEN FALSE
    ELSE IF r.rv < 0 /\ r.eagain THEN TRUE
    ELSE IF r.rv < 0 THEN FALSE
    ELSE TRUE

\* faulty variant: a failure branch that leaves the handle as it is
ClosedFdKept == client_fd_

\* client_fd_ after the failure branch of RunOnce
ClosedFd == -1

\* a binary frame as the sensor sends it
GoodNov == NovFrame(BESTGNSSPOS, << 7 >>)

\* the same frame with a damaged checksum
BadNov == SubSeq(GoodNov, 1, Len(GoodNov) - 1) \o << (GoodNov[Len(GoodNov)] + 1) % 256 >>

\* the sentence "$FP,L*00"
GoodNmea == << Dollar, 70, 80, Comma, 76, Star, 48, 48 >>

\* What the wire is built from: a noise byte ('x'), a start marker with no sentence behind
\* it, well-formed frames of both kinds, a corrupted binary frame.
Segments == { << 120 >>, << Dollar >>, GoodNov, BadNov, GoodNmea }

RECURSIVE WiresOf(_)
WiresOf(n) ==
    IF n = 0 THEN { << >> }
    ELSE LET w == WiresOf(n - 1) IN w \cup { a \o s : a \in w, s \in Segments }

Wires == WiresOf(MaxSegs)

---------------------------------------------------------------------------
(* The outbound wheel-speed frame (RAWDMI) *)

\* the frame as the constructor leaves it
InitialRawdmi ==
    [ head1 |-> 170, head2 |-> 68, head3 |-> 19, payloadLen |-> 20, msgId |-> 2269,
      wno |-> 0, tow |-> 0, dmi1 |-> 0, dmi2 |-> 0, dmi3 |-> 0, dmi4 |-> 0, mask |-> 0 ]

\* little-endian bytes of a 16-bit unsigned value
LE16(v) == << v % 256, (v \div 256) % 256 >>

\* little-endian bytes of a 32-bit two's complement value
LE32(v) ==
    LET u == IF v >= 0 THEN v ELSE v + 2147483647 + 1
        h == IF v >= 0 THEN 0 ELSE 128
    IN  << u % 256, (u \div 256) % 256, (u \div 65536) % 256, ((u \div 16777216) % 128) + h >>

\* The bytes of the frame in memory: header (sync, payload length, message
\* id, week number, time of week) and the 20 bytes of payload.
Serialize(r) ==
    << r.head1, r.head2, r.head3, r.payloadLen >> \o LE16(r.msgId) \o LE16(r.wno)
    \o LE32(r.tow) \o LE32(r.dmi1) \o LE32(r.dmi2) \o LE32(r.dmi3) \o LE32(r.dmi4)
    \o LE32(r.mask)

\* bit i of the non-negative value v
Bit(v, i) == (v \div (2 ^ i)) % 2

\* positions of the mask bits the encoder uses
MaskBits == {0, 1, 2, 3, 11}

RECURSIVE SumBits(_, _, _)
SumBits(a, b, S) ==
    IF S = {} THEN 0
    ELSE LET i == CHOOSE x \in S : TRUE
         IN  (IF Bit(a, i) = 1 \/ Bit(b, i) = 1 THEN 2 ^ i ELSE 0) + SumBits(a, b, S \ {i})

\* a | b on the bits of the mask
BitOr(a, b) == SumBits(a, b, MaskBits)

\* faulty variant: every count from 1 on is encoded
WsSupportedAny(n) == n >= 1

\* the counts of readings WsCallback encodes
WsSupported(n) == n \in {1, 2, 4}

\* faulty variant: the mask bits are or-ed into the mask of the last call
WsStoreOrMask(r, sp) ==
    IF Len(sp) = 1
    THEN [r EXCEPT !.dmi1 = sp[1], !.mask = BitOr(r.mask, 2 ^ 0)]
    ELSE IF Len(sp) = 2
    THEN [r EXCEPT !.dmi1 = sp[1], !.dmi2 = sp[2],
                   !.mask = BitOr(r.mask, 2 ^ 0 + 2 ^ 1 + 2 ^ 11)]
    ELSE IF Len(sp) = 4
    THEN [r EXCEPT !.dmi1 = sp[1], !.dmi2 = sp[2], !.dmi3 = sp[3], !.dmi4 = sp[4],
                   !.mask = BitOr(r.mask, 2 ^ 0 + 2 ^ 1 + 2 ^ 2 + 2 ^ 3)]
    ELSE r

\* faulty variant: the time of week is set with every encoded frame
WsStoreTick(r, sp) ==
    IF Len(sp) = 1
    THEN [r EXCEPT !.dmi1 = sp[1], !.mask = 2 ^ 0, !.tow = 1]
    ELSE IF Len(sp) = 2
    THEN [r EXCEPT !.dmi1 = sp[1], !.dmi2 = sp[2],
                   !.mask = 2 ^ 0 + 2 ^ 1 + 2 ^ 11, !.tow = 1]
    ELSE IF Len(sp) = 4
    THEN [r EXCEPT !.dmi1 = sp[1], !.dmi2 = sp[2], !.dmi3 = sp[3], !.dmi4 = sp[4],
                   !.mask = 2 ^ 0 + 2 ^ 1 + 2 ^ 2 + 2 ^ 3, !.tow = 1]
    ELSE r

\* what WsCallback stores into rawdmi_ for the readings sp
WsStore(r, sp) ==
    IF Len(sp) = 1
    THEN [r EXCEPT !.dmi1 = sp[1], !.mask = 2 ^ 0]
    ELSE IF Len(sp) = 2
    THEN [r EXCEPT !.dmi1 = sp[1], !.dmi2 = sp[2],
                   !.mask = 2 ^ 0 + 2 ^ 1 + 2 ^ 11]
    ELSE IF Len(sp) = 4
    THEN [r EXCEPT !.dmi1 = sp[1], !.dmi2 = sp[2], !.dmi3 = sp[3], !.dmi4 = sp[4],
                   !.mask = 2 ^ 0 + 2 ^ 1 + 2 ^ 2 + 2 ^ 3]
    ELSE r

\* faulty variant: the checksum is taken before the readings are stored
WsMessageStale(old, new) == Serialize(new) \o Crc32(Serialize(old))

\* "Compose entire message": the frame and its checksum
WsMessage(old, new) == Serialize(new) \o Crc32(Serialize(new))

\* the transport write of WsCallback
WsWrite ==
    << [call |-> IF type = "TCP" THEN "send" ELSE "write", fd |-> client_fd_] >>

\* readings a caller passes
SpeedValues == {-1, 100}

RECURSIVE SeqsUpTo(_, _)
SeqsUpTo(S, n) ==
    IF n = 0 THEN { << >> }
    ELSE LET q == SeqsUpTo(S, n - 1) IN q \cup { Append(a, x) : a \in q, x \in S }

---------------------------------------------------------------------------
(* The converter registry *)

\* the names InitializeConverters knows, as character codes
ODOMETRY == << 79, 68, 79, 77, 69, 84, 82, 89 >>
LLH == << 76, 76, 72 >>
RAWIMU == << 82, 65, 87, 73, 77, 85 >>
CORRIMU == << 67, 79, 82, 82, 73, 77, 85 >>
TF == << 84, 70 >>

\* the registry before InitializeConverters
NoConverters == [k \in {} |-> 0]

\* the entry operator[] creates for a key that is not in the registry
NullConverter == [cls |-> "nullptr", id |-> 0]

\* a_converters_[k] = v
Put(reg, k, v) == [x \in (DOMAIN reg) \cup {k} |-> IF x = k THEN v ELSE reg[x]]

\* a_converters_[k] = unique_ptr(new cls): the n-th converter created
Assign(st, k, cls) ==
    LET v == [cls |-> cls, id |-> Len(st.log) + 1]
    IN  [reg |-> Put(st.reg, k, v), log |-> Append(st.log, [key |-> k, inst |-> v])]

\* faulty variant: ODOMETRY registers its own converter only
RegisterFormatNoTf(st, format) ==
    IF format = ODOMETRY
    THEN Assign(st, ODOMETRY, "OdometryConverter")
    ELSE IF format = LLH THEN Assign(st, LLH, "LlhConverter")
    ELSE IF format = RAWIMU THEN Assign(st, RAWIMU, "ImuConverter(false)")
    ELSE IF format = CORRIMU THEN Assign(st, CORRIMU, "ImuConverter(true)")
    ELSE IF format = TF
    THEN ( IF TF \notin DOMAIN st.reg THEN Assign(st, TF, "TfConverter") ELSE st )
    ELSE st

\* faulty variant: a name that is not known empties the registry
RegisterFormatReset(st, format) ==
    IF format = ODOMETRY
    THEN Assign(Assign(st, ODOMETRY, "OdometryConverter"), TF, "TfConverter")
    ELSE IF format = LLH THEN Assign(st, LLH, "LlhConverter")
    ELSE IF format = RAWIMU THEN Assign(st, RAWIMU, "ImuConverter(false)")
    ELSE IF format = CORRIMU THEN Assign(st, CORRIMU, "ImuConverter(true)")
    ELSE IF format = TF
    THEN ( IF TF \notin DOMAIN st.reg THEN Assign(st, TF, "TfConverter") ELSE st )
    ELSE [st EXCEPT !.reg = NoConverters]

\* the body of the loop of InitializeConverters
RegisterFormat(st, format) ==
    IF format = ODOMETRY
    THEN Assign(Assign(st, ODOMETRY, "OdometryConverter"), TF, "TfConverter")
    ELSE IF format = LLH THEN Assign(st, LLH, "LlhConverter")
    ELSE IF format = RAWIMU THEN Assign(st, RAWIMU, "ImuConverter(false)")
    ELSE IF format = CORRIMU THEN Assign(st, CORRIMU, "ImuConverter(true)")
    ELSE IF format = TF
    THEN ( IF TF \notin DOMAIN st.reg THEN Assign(st, TF, "TfConverter") ELSE st )
    ELSE st

RECURSIVE RegisterAll(_, _)
RegisterAll(st, fs) ==
    IF fs = << >> THEN st ELSE RegisterAll(RegisterFormat(st, Head(fs)), Tail(fs))

\* the registry and the converters created by InitializeConverters
Registered(fs) == RegisterAll([reg |-> NoConverters, log |-> << >>], fs)

\* return !a_converters_.empty()
InitializeConvertersRet(reg) == DOMAIN reg # {}

\* names a configuration can list: the known ones and "XX"
FormatNames == { ODOMETRY, LLH, RAWIMU, CORRIMU, TF, << 88, 88 >> }

---------------------------------------------------------------------------
(* The dispatch of the frames *)

\* the vendor tag "FP"
FP == << 70, 80 >>

\* msg.find_last_of("*"), counted from 1; 0 when there is none
LastStar(msg) ==
    IF \E i \in 1..Len(msg) : msg[i] = Star
    THEN CHOOSE i \in 1..Len(msg) : msg[i] = Star /\ \A j \in (i + 1)..Len(msg) : msg[j] # Star
    ELSE 0

\* faulty variant: the start marker is left in the text
NmeaBodyWithMarker(msg) ==
    IF LastStar(msg) = 0 THEN msg ELSE SubSeq(msg, 1, LastStar(msg) - 1)

\* msg.substr(1, star_pos - 1)
NmeaBody(msg) ==
    IF LastStar(msg) = 0 THEN SubSeq(msg, 2, Len(msg)) ELSE SubSeq(msg, 2, LastStar(msg) - 1)

\* SplitMessage(tokens, text, ","): the pieces of text between the commas
RECURSIVE SplitMessage(_)
SplitMessage(text) ==
    IF \E i \in 1..Len(text) : text[i] = Comma
    THEN LET c == Min({ i \in 1..Len(text) : text[i] = Comma })
         IN  << SubSeq(text, 1, c - 1) >> \o SplitMessage(SubSeq(text, c + 1, Len(text)))
    ELSE << text >>

\* NmeaConvertAndPublish(msg), for the sentence at offset `at` of the stream.
\* tokens.at(1) throws when the sentence has one token; a_converters_[header]
\* adds an empty entry for a header that is not in the registry.
NmeaConvertAndPublish(st, msg, at) ==
    LET tokens == SplitMessage(NmeaBody(msg)) IN
    IF tokens[1] # FP THEN st
    ELSE IF Len(tokens) < 2 THEN [st EXCEPT !.thrown = TRUE]
    ELSE LET header == tokens[2]
             reg    == IF header \in DOMAIN st.reg THEN st.reg
                       ELSE Put(st.reg, header, NullConverter)
         IN  IF reg[header] # NullConverter
             THEN [st EXCEPT !.reg = reg,
                             !.inv = Append(st.inv, [kind |-> "ascii", key |-> header,
                                                     conv |-> reg[header], tokens |-> tokens,
                                                     at |-> at])]
             ELSE [st EXCEPT !.reg = reg]

\* header->message_id
NovMessageId(msg) == msg[5] + 256 * msg[6]

RECURSIVE Observers(_, _, _)
Observers(inv, n, at) ==
    IF n = 0 THEN inv
    ELSE Append(Observers(inv, n - 1, at),
                [kind |-> "binary", key |-> << >>, conv |-> [cls |-> "observer", id |-> n],
                 tokens |-> << >>, at |-> at])

\* faulty variant: the observers are called for every message id
NovConvertAndPublishAny(st, msg, at, nobs) ==
    [st EXCEPT !.inv = Observers(st.inv, nobs, at)]

\* NovConvertAndPublish(msg, size) with nobs observers of BESTGNSSPOS
NovConvertAndPublish(st, msg, at, nobs) ==
    IF NovMessageId(msg) = BESTGNSSPOS
    THEN [st EXCEPT !.inv = Observers(st.inv, nobs, at)]
    ELSE st

\* The conversions of one pass of the scan loop over buf: the events of tr
\* from the i-th on, until one throws. n counts the events that happened.
RECURSIVE Dispatch(_, _, _, _, _, _)
Dispatch(st, tr, i, buf, off0, nobs) ==
    IF i > Len(tr) \/ st.thrown THEN st
    ELSE LET e   == tr[i]
             msg == SubSeq(buf, e.off + 1, e.off + e.res)
             s1  == IF e.k = "NovPub" THEN NovConvertAndPublish(st, msg, off0 + e.off, nobs)
                    ELSE IF e.k = "NmeaPub" THEN NmeaConvertAndPublish(st, msg, off0 + e.off)
                    ELSE st
         IN  Dispatch([s1 EXCEPT !.n = i], tr, i + 1, buf, off0, nobs)

\* the sentence with the given text between '$' and "*00"
Sentence(text) == << Dollar >> \o text \o << Star, 48, 48 >>

\* What the wire is built from when the dispatch is looked at: the
\* sentences "$FP,TF,1*00", "$FP,XX*00", "$GP,TF*00", "$FP*00" and
\* "$FP,TF*1*", a BESTGNSSPOS frame and a binary frame with another id.
DispSegments ==
    { Sentence(FP \o << Comma >> \o TF \o << Comma, 49 >>),
      Sentence(FP \o << Comma, 88, 88 >>),
      Sentence(<< 71, 80, Comma >> \o TF),
      Sentence(FP),
      << Dollar >> \o FP \o << Comma >> \o TF \o << Star, 49, Star >>,
      GoodNov,
      NovFrame(42, << 7 >>) }

RECURSIVE Concat(_)
Concat(q) == IF q = << >> THEN << >> ELSE Head(q) \o Concat(Tail(q))

DispWires == { Concat(q) : q \in SeqsUpTo(DispSegments, MaxDispSegs) }

---------------------------------------------------------------------------
(* The conversions to ROS *)

\* GnssStatus::FIX_TYPE_S2D and GnssStatus::FIX_TYPE_RTK_FLOAT
FIX_TYPE_S2D == 4
FIX_TYPE_RTK_FLOAT == 7

\* std::max
MaxOf(a, b) == IF a >= b THEN a ELSE b

\* The status and the service OdomToNavSatFix gives for status_flag; the
\* condition of the second branch is a disjunction.
NavSatStatus(status_flag) ==
    IF status_flag < FIX_TYPE_S2D
    THEN [status |-> "STATUS_NO_FIX", service |-> "SERVICE_NONE"]
    ELSE IF status_flag >= FIX_TYPE_S2D \/ status_flag < FIX_TYPE_RTK_FLOAT
    THEN [status |-> "STATUS_FIX", service |-> "SERVICE_ALL"]
    ELSE IF status_flag >= FIX_TYPE_RTK_FLOAT
    THEN [status |-> "STATUS_GBAS_FIX", service |-> "SERVICE_ALL"]
    ELSE [status |-> "STATUS_NO_FIX", service |-> "SERVICE_NONE"]

\* faulty variant: the orientation is not looked at
TfBroadcastAnyQ(fusion_status, q) == fusion_status > 0

\* OdometryDataToTf sends the transform
TfBroadcast(fusion_status, q) ==
    /\ fusion_status > 0
    /\ ~((q["x"] = 0 /\ q["y"] = 0 /\ q["z"] = 0) /\ q["w"] = 0)

\* the data types FpToRosMsg is overloaded for
FpToRosMsgOverloads ==
    { "OdometryData", "ImuData", "FP_IMUBIAS", "FP_GNSSANT", "FP_GNSSCORR", "FP_LLH",
      "FP_ODOMENU", "FP_ODOMETRY", "FP_ODOMSH", "FP_ODOMSTATUS", "FP_TEXT", "FP_TP",
      "FP_EOE", "GP_GGA", "GP_GLL", "GN_GSA", "GP_GST", "GX_GSV", "GP_HDT", "GP_RMC",
      "GP_VTG", "GP_ZDA" }

\* pub->get_subscription_count() > 0
FpPublishes(subs) == subs > 0

---------------------------------------------------------------------------
(* Operations *)

\* CreateTCPSocket
CreateTCPSocket ==
    /\ UNCHANGED speed
    /\ \/ /\ client_fd_' = -1                \* socket() failed
          /\ UNCHANGED connection_status_
          /\ sys' = << [call |-> "socket", fd |-> -1] >>
          /\ connRet' = FALSE
       \/ \E fd \in Fds, st \in {0, -1} :
          /\ client_fd_' = fd
          /\ connection_status_' = st
          /\ sys' = << [call |-> "socket", fd |-> fd], [call |-> "connect", fd |-> fd] >>
          /\ connRet' = (st = 0)

\* the baud rates the switch of CreateSerialConnection has a case for
SupportedBaudrates == {9600, 38400, 57600, 115200, 230400, 460800, 500000, 921600, 1000000}

\* faulty variant: no speed is chosen for a baud rate without a case
SpeedOfStrict(b) == IF b \in SupportedBaudrates THEN b ELSE 0

\* the speed the switch chooses: B<b> for a case, B115200 by default
SpeedOf(b) == IF b \in SupportedBaudrates THEN b ELSE 115200

\* CreateSerialConnection
CreateSerialConnection ==
    \/ /\ client_fd_' = -1                \* open() failed
       /\ UNCHANGED << connection_status_, speed >>
       /\ sys' = << [call |-> "open", fd |-> -1] >>
       /\ connRet' = FALSE
    \/ \E fd \in Fds :
       /\ client_fd_' = fd
       /\ connection_status_' = 0
       /\ sys' = << [call |-> "open", fd |-> fd], [call |-> "tcsetattr", fd |-> fd] >>
       /\ speed' = SpeedOf(baudrate)
       /\ connRet' = TRUE

\* Connect, called again by the owner after RunOnce reported a failure
Connect ==
    /\ op # "Destruct"
    /\ ret = "false"
    /\ op' = "Connect"
    /\ pre' = [fd |-> client_fd_, st |-> connection_status_]
    /\ IF type = "TCP" THEN CreateTCPSocket ELSE CreateSerialConnection
    /\ ret' = "none"
    /\ UNCHANGED << type, wire, pos, rd, base, trace, dispatched, byteWise, clean >>
    /\ UNCHANGED wsVars
    /\ UNCHANGED regVars
    /\ UNCHANGED baudrate
    /\ UNCHANGED rosVars

\* RunOnce, with ReadAndPublish
RunOnce ==
    /\ op # "Destruct"
    /\ ret # "throw"
    /\ op' = "RunOnce"
    /\ pre' = [fd |-> client_fd_, st |-> connection_status_]
    /\ UNCHANGED << type, wire, connection_status_ >>
    /\ UNCHANGED wsVars
    /\ UNCHANGED << formats, convLog, initRet, bestgnsspos_obs_ >>
    /\ UNCHANGED serVars
    /\ UNCHANGED rosVars
    /\ IF client_fd_ > 0 /\ connection_status_ = 0
       THEN \E r \in ReadResults :
            LET rcall == [call |-> IF type = "TCP" THEN "recv" ELSE "read", fd |-> client_fd_]
                n     == IF r.rv > 0 THEN r.rv ELSE 0
                buf   == SubSeq(wire, pos + 1, pos + n)
                d     == Dispatch([reg |-> a_converters_, inv |-> invoked,
                                   thrown |-> FALSE, n |-> 0],
                                  ScanLoop(buf, 0, n), 1, buf, pos, bestgnsspos_obs_)
                tr    == SubSeq(ScanLoop(buf, 0, n), 1, d.n)
            IN  /\ rd' = r
                /\ base' = pos
                /\ pos' = pos + n
                /\ trace' = tr
                /\ dispatched' = PublishAll(dispatched, tr, pos)
                /\ a_converters_' = d.reg
                /\ invoked' = d.inv
                /\ byteWise' = (byteWise /\ (n > 0 => n = 1))
                /\ ret' = IF d.thrown THEN "throw"
                          ELSE IF ReadAndPublishRet(r) THEN "true" ELSE "false"
                /\ clean' = (clean /\ (d.thrown \/ ReadAndPublishRet(r)))
                /\ IF d.thrown \/ ReadAndPublishRet(r)
                   THEN /\ sys' = << rcall >>
                        /\ UNCHANGED client_fd_
                   ELSE /\ sys' = << rcall, [call |-> "close", fd |-> client_fd_] >>
                        /\ client_fd_' = ClosedFd
       ELSE /\ sys' = << [call |-> "close", fd |-> client_fd_] >>
            /\ client_fd_' = ClosedFd
            /\ ret' = "false"
            /\ clean' = FALSE
            /\ rd' = NoRead
            /\ trace' = << >>
            /\ UNCHANGED << pos, base, dispatched, byteWise, a_converters_, invoked >>

\* WsCallback
WsCallback ==
    /\ op # "Destruct"
    /\ ret # "throw"
    /\ \E sp \in SeqsUpTo(SpeedValues, MaxSpeeds) :
         /\ op' = "WsCallback"
         /\ pre' = [fd |-> client_fd_, st |-> connection_status_]
         /\ speeds' = sp
         /\ IF WsSupported(Len(sp))
            THEN /\ rawdmi_' = WsStore(rawdmi_, sp)
                 /\ message' = WsMessage(rawdmi_, WsStore(rawdmi_, sp))
                 /\ sys' = WsWrite
            ELSE /\ rawdmi_' = rawdmi_
                 /\ message' = << >>
                 /\ sys' = << >>
    /\ UNCHANGED << type, client_fd_, connection_status_, wire, pos, rd, base, trace,
                    dispatched, ret, byteWise, clean >>
    /\ UNCHANGED regVars
    /\ UNCHANGED serVars
    /\ UNCHANGED rosVars

\* InitializeConverters, called by the constructor after Connect(); the
\* constructor goes on whatever it returns.
InitializeConverters ==
    /\ op = "Connect"
    /\ initRet = "none"
    /\ op' = "Construct"
    /\ a_converters_' = Registered(formats).reg
    /\ convLog' = Registered(formats).log
    /\ initRet' = IF InitializeConvertersRet(Registered(formats).reg) THEN "true" ELSE "false"
    /\ UNCHANGED << type, client_fd_, connection_status_, wire, pos, rd, base, trace,
                    dispatched, ret, pre, sys, byteWise, clean, formats, bestgnsspos_obs_,
                    invoked >>
    /\ UNCHANGED wsVars
    /\ UNCHANGED serVars
    /\ UNCHANGED rosVars

\* what the conversions leave alone: the driver
DriverVars ==
    << type, client_fd_, connection_status_, wire, pos, rd, base, trace, dispatched, ret,
       pre, sys, byteWise, clean, wsVars, regVars, serVars >>

\* OdomToNavSatFix(data, pub)
OdomToNavSatFix ==
    /\ \E subs \in 0..MaxSubscribers, stampZero \in BOOLEAN, positionZero \in BOOLEAN,
          g1 \in 0..MaxGnssStatus, g2 \in 0..MaxGnssStatus :
         /\ rosCall' = [fn |-> "OdomToNavSatFix", subs |-> subs, stampZero |-> stampZero,
                        positionZero |-> positionZero, gnss1_status |-> g1,
                        gnss2_status |-> g2]
         /\ rosOut' = IF subs > 0
                      THEN << [msg |-> "NavSatFix",
                               stamp |-> IF stampZero THEN "now" ELSE "gps",
                               position_covariance_type |-> IF positionZero THEN 0 ELSE 3,
                               status |-> NavSatStatus(MaxOf(g1, g2)).status,
                               service |-> NavSatStatus(MaxOf(g1, g2)).service] >>
                      ELSE << >>
    /\ op' = "OdomToNavSatFix"
    /\ UNCHANGED DriverVars

\* OdometryDataToTf(data, pub)
OdometryDataToTf ==
    /\ \E fusion \in -1..2, q \in [{"x", "y", "z", "w"} -> {0, 1}] :
         /\ rosCall' = [fn |-> "OdometryDataToTf", fusion_status |-> fusion, orientation |-> q]
         /\ rosOut' = IF TfBroadcast(fusion, q) THEN << [msg |-> "TransformStamped"] >>
                      ELSE << >>
    /\ op' = "OdometryDataToTf"
    /\ UNCHANGED DriverVars

\* FpToRosMsg(data, pub), every overload
FpToRosMsg ==
    /\ \E data \in FpToRosMsgOverloads, subs \in 0..MaxSubscribers :
         /\ rosCall' = [fn |-> "FpToRosMsg", data |-> data, subs |-> subs]
         /\ rosOut' = IF FpPublishes(subs) THEN << [msg |-> data] >> ELSE << >>
    /\ op' = "FpToRosMsg"
    /\ UNCHANGED DriverVars

\* ~FixpositionDriver: the end of the driver
Destroy ==
    /\ op # "Destruct"
    /\ op' = "Destruct"
    /\ pre' = [fd |-> client_fd_, st |-> connection_status_]
    /\ sys' = IF client_fd_ # -1
              THEN ( IF type = "SERIAL"
                     \* tcsetattr(client_fd_, TCSANOW, &options_save_)
                     THEN << [call |-> "tcsetattr_saved", fd |-> client_fd_] >>
                     ELSE << >> )
                   \o << [call |-> "close", fd |-> client_fd_] >>
              ELSE << >>
    /\ UNCHANGED << type, client_fd_, connection_status_, wire, pos, rd, base, trace,
                    dispatched, ret, byteWise, clean >>
    /\ UNCHANGED wsVars
    /\ UNCHANGED regVars
    /\ UNCHANGED serVars
    /\ UNCHANGED rosVars

\* State of the constructor after its call of Connect(), for a sensor that
\* will send one of the wires W and a configured baud rate out of B.
ConstructorConnectAt(W, B) ==
    /\ type \in {"TCP", "SERIAL"}
    /\ baudrate \in B
    /\ rosCall = [fn |-> "none"]
    /\ rosOut = << >>
    /\ wire \in W
    /\ pos = 0
    /\ rd = NoRead
    /\ base = 0
    /\ trace = << >>
    /\ dispatched = << >>
    /\ ret = "none"
    /\ pre = [fd |-> -1, st |-> -1]
    /\ byteWise = TRUE
    /\ clean = TRUE
    /\ rawdmi_ = InitialRawdmi
    /\ speeds = << >>
    /\ message = << >>
    /\ \/ /\ client_fd_ = -1 /\ connection_status_ = -1
          /\ sys = << [call |-> IF type = "TCP" THEN "socket" ELSE "open", fd |-> -1] >>
          /\ speed = 0
          /\ connRet = FALSE
       \/ \E fd \in Fds, st \in {0, -1} :
          /\ type = "TCP"
          /\ client_fd_ = fd /\ connection_status_ = st
          /\ sys = << [call |-> "socket", fd |-> fd], [call |-> "connect", fd |-> fd] >>
          /\ speed = 0
          /\ connRet = (st = 0)
       \/ \E fd \in Fds :
          /\ type = "SERIAL"
          /\ client_fd_ = fd /\ connection_status_ = 0
          /\ sys = << [call |-> "open", fd |-> fd], [call |-> "tcsetattr", fd |-> fd] >>
          /\ speed = SpeedOf(baudrate)
          /\ connRet = TRUE

\* The same for the baud rate 115200.
ConstructorConnect(W) == ConstructorConnectAt(W, {115200})

\* State after the constructor of a driver configured with one of the lists
\* of formats F and one of the baud rates B, and given one of the numbers of
\* observers O.
ConstructedAt(W, F, O, B) ==
    /\ ConstructorConnectAt(W, B)
    /\ op = "Construct"
    /\ formats \in F
    /\ a_converters_ = Registered(formats).reg
    /\ convLog = Registered(formats).log
    /\ initRet = (IF InitializeConvertersRet(Registered(formats).reg) THEN "true" ELSE "false")
    /\ bestgnsspos_obs_ \in O
    /\ invoked = << >>

\* The same for the baud rate 115200.
ConstructedWith(W, F, O) == ConstructedAt(W, F, O, {115200})

\* State after the constructor, which calls Connect() once, for a sensor
\* that will send one of the wires W.
Constructed(W) == ConstructedWith(W, { << TF >> }, {1})

---------------------------------------------------------------------------
(* Specifications *)

\* The life cycle of the connection: every outcome of the constructor, read
\* cycles, the owner connecting again after a failure, and the destructor.
Init == Constructed(WiresOf(MaxConnSegs))

Next == RunOnce \/ Connect \/ Destroy

Spec == Init /\ [][Next]_vars

\* The outbound encoder: WsCallback calls on a constructed driver.
InitWs == Constructed({ << >> })

NextWs == WsCallback

SpecWs == InitWs /\ [][NextWs]_vars

\* The registry: the constructor between Connect() and InitializeConverters().
InitReg ==
    /\ ConstructorConnect({ << >> })
    /\ op = "Connect"
    /\ formats \in SeqsUpTo(FormatNames, MaxFormats)
    /\ a_converters_ = NoConverters
    /\ convLog = << >>
    /\ initRet = "none"
    /\ bestgnsspos_obs_ = 0
    /\ invoked = << >>

NextReg == InitializeConverters

SpecReg == InitReg /\ [][NextReg]_vars

\* The dispatch: read cycles of a driver connected over TCP, with a TF
\* converter, without observers and with two.
InitDisp ==
    /\ ConstructedWith(DispWires, { << TF >> }, {0, 2})
    /\ type = "TCP"
    /\ client_fd_ = 3
    /\ connection_status_ = 0

NextDisp == RunOnce

SpecDisp == InitDisp /\ [][NextDisp]_vars

\* baud rates a configuration can ask for: those with a case and three others
Baudrates == SupportedBaudrates \cup {0, 19200, 2000000}

\* The serial connection: a driver on a serial device with any of the baud
\* rates, its read cycles on a silent line and the owner connecting again.
InitSerial ==
    /\ ConstructedAt({ << >> }, { << TF >> }, {0}, Baudrates)
    /\ type = "SERIAL"

NextSerial == RunOnce \/ Connect

SpecSerial == InitSerial /\ [][NextSerial]_vars

\* The encoder on a live driver: read cycles on a silent TCP connection
\* and WsCallback calls, in any order.
InitLive ==
    /\ Constructed({ << >> })
    /\ type = "TCP"
    /\ client_fd_ = 3
    /\ connection_status_ = 0

NextLive == RunOnce \/ WsCallback

SpecLive == InitLive /\ [][NextLive]_vars

\* The conversions to ROS, called in any order with any arguments.
InitRos ==
    /\ Constructed({ << >> })
    /\ type = "TCP"
    /\ client_fd_ = 3
    /\ connection_status_ = 0

NextRos == OdomToNavSatFix \/ OdometryDataToTf \/ FpToRosMsg

SpecRos == InitRos /\ [][NextRos]_vars

\* The frame scanner: read cycles of a driver whose constructor connected,
\* over longer wires.
InitScan == Constructed(Wires) /\ client_fd_ # -1 /\ connection_status_ = 0

NextScan == RunOnce

SpecScan == InitScan /\ [][NextScan]_vars

---------------------------------------------------------------------------
(* Vocabulary of the properties *)

\* the bytes of the last read
Chunk == SubSeq(wire, base + 1, pos)

\* the bytes received so far
Received == SubSeq(wire, 1, pos)

Suffix(c, k) == SubSeq(c, k + 1, Len(c))

\* neither matcher recognises anything at offset k of c
NoMatchAt(c, k) == IsNovMessage(Suffix(c, k)) = 0 /\ IsNmeaMessage(Suffix(c, k)) = 0

\* size of the complete frame the matchers recognise at offset k of c, or 0
FrameSizeAt(c, k) ==
    LET nov == IsNovMessage(Suffix(c, k))
        nm  == IsNmeaMessage(Suffix(c, k))
    IN  IF nov > 0 THEN nov ELSE IF nov = 0 /\ nm > 0 THEN nm ELSE 0

Idx(k) == { i \in 1..Len(trace) : trace[i].k = k }

PubIdx == Idx("NovPub") \cup Idx("NmeaPub")

IsMatcherCall(e) == e.k \in {"IsNov", "IsNmea"}

\* the frames a scanner that sees the bytes c as one piece dispatches
FramesOfOnePass(c) == PublishAll(<< >>, ScanLoop(c, 0, Len(c)), 0)

\* stream offset at which the last pass stopped on "incomplete", or -1
PendingAt ==
    IF rd.cause = "data" /\ trace # << >>
       /\ IsMatcherCall(trace[Len(trace)]) /\ trace[Len(trace)].res < 0
    THEN base + trace[Len(trace)].off
    ELSE -1

DataRead == op = "RunOnce" /\ rd.cause = "data"

---------------------------------------------------------------------------
(* C1 .. C7: the frame scanner (SpecScan) *)

\* C1 (as claimed): fragmentation-invariance. Once the whole wire was
\* delivered one byte per read cycle on a connection that stayed open, the
\* frames dispatched are, in order, those a single read of the wire gives.
C1_FragmentationInvariance ==
    (clean /\ byteWise /\ pos = Len(wire)) => dispatched = FramesOfOnePass(wire)

\* C2 (as claimed): carry-over. When a pass ended on "incomplete" at stream
\* offset k and the next read brings the rest of the frame that starts at k,
\* that next cycle scans from k on (the retained bytes prefixed to the new
\* ones) and dispatches the frame, exactly once.
C2_CarryOver ==
    [][ ( /\ DataRead /\ PendingAt # -1
          /\ op' = "RunOnce" /\ rd'.cause = "data"
          /\ FrameSizeAt(SubSeq(wire, PendingAt + 1, pos'), 0) > 0 )
        => /\ base' + trace'[1].off = PendingAt
           /\ Cardinality({ i \in 1..Len(dispatched') :
                              dispatched'[i].at = PendingAt }) = 1 ]_vars

\* C3: garbage-skip. A read of N bytes at none of which a matcher matches,
\* followed by exactly one complete frame, makes the scan loop advance N
\* times by one byte (at offsets 0 .. N-1) and then dispatch that frame,
\* once, and nothing else.
C3_GarbageSkip ==
    DataRead =>
      \A N \in 0..(rd.rv - 1) :
        ( /\ \A k \in 0..(N - 1) : NoMatchAt(Chunk, k)
          /\ FrameSizeAt(Chunk, N) = rd.rv - N )
        => /\ Cardinality(Idx("Adv")) = N
           /\ \A i \in Idx("Adv") : trace[i].res = 1 /\ trace[i].off < N
           /\ \A k \in 0..(N - 1) : \E i \in Idx("Adv") : trace[i].off = k
           /\ Cardinality(PubIdx) = 1
           /\ \A i \in PubIdx : trace[i].off = N /\ trace[i].res = rd.rv - N
           /\ Len(dispatched) > 0
           /\ dispatched[Len(dispatched)].at = base + N
           /\ dispatched[Len(dispatched)].size = rd.rv - N
           /\ \A j \in 1..(Len(dispatched) - 1) : dispatched[j].at < base

\* C3 witness: a read of at least two noise bytes and then one frame.
C3_Witness ==
    /\ DataRead
    /\ \E N \in 2..(rd.rv - 1) :
         /\ \A k \in 0..(N - 1) : NoMatchAt(Chunk, k)
         /\ FrameSizeAt(Chunk, N) = rd.rv - N
         /\ Cardinality(PubIdx) = 1

\* C4: matcher priority with short-circuit. Every iteration consults the
\* binary matcher first; the ascii matcher is consulted at an offset only
\* right after the binary matcher returned 0 at that offset; a negative
\* result of either matcher is the last thing that happens in the pass.
C4_MatcherPriority ==
    /\ trace # << >> => trace[1].k = "IsNov"
    /\ \A i \in 1..Len(trace) :
         /\ trace[i].k = "IsNov" =>
              trace[i].res = IsNovMessage(Suffix(Chunk, trace[i].off))
         /\ trace[i].k = "IsNmea" =>
              /\ trace[i].res = IsNmeaMessage(Suffix(Chunk, trace[i].off))
              /\ i > 1
              /\ trace[i - 1].k = "IsNov"
              /\ trace[i - 1].off = trace[i].off
              /\ trace[i - 1].res = 0
         /\ (trace[i].k = "IsNov" /\ trace[i].res = 0) =>
              i < Len(trace) /\ trace[i + 1].k = "IsNmea"
         /\ (trace[i].k = "IsNov" /\ trace[i].res > 0) =>
              i < Len(trace) /\ trace[i + 1].k = "NovPub"
         /\ (IsMatcherCall(trace[i]) /\ trace[i].res < 0) => i = Len(trace)
         /\ (trace[i].k \in {"NovPub", "NmeaPub", "Adv"} /\ i < Len(trace)) =>
              trace[i + 1].k = "IsNov"

\* C4 witness: a pass ended by "incomplete" although a complete frame lies
\* further on in the same read.
C4_Witness ==
    /\ DataRead
    /\ PendingAt # -1
    /\ \E j \in (PendingAt - base + 1)..(rd.rv - 1) :
         /\ FrameSizeAt(Chunk, j) > 0
         /\ \A i \in PubIdx : trace[i].off # j

\* C5: progress and termination. The offsets of successive iterations grow
\* strictly, by the size of the frame on a match and by exactly 1 on a double
\* no-match; the pass needs at most rv iterations and never stalls.
C5_ScanProgress ==
    /\ Idx("Stall") = {}
    /\ Cardinality(Idx("IsNov")) <= (IF rd.rv > 0 THEN rd.rv ELSE 0)
    /\ \A i \in Idx("Adv") : trace[i].res = 1
    /\ \A i \in PubIdx : trace[i].res > 0
    /\ \A i \in Idx("IsNov") : trace[i].off >= 0 /\ trace[i].off < rd.rv
    /\ \A i, j \in Idx("IsNov") : i < j => trace[i].off < trace[j].off
    /\ \A i \in PubIdx \cup Idx("Adv") :
         i < Len(trace) => trace[i + 1].off = trace[i].off + trace[i].res

\* C5 witness: a pass of several iterations, with noise skipped byte by byte
\* and a frame dispatched.
C5_Witness ==
    /\ DataRead
    /\ Cardinality(Idx("Adv")) >= 2
    /\ PubIdx # {}

\* C6: dispatch ordering. Frames are dispatched in the order of their place
\* in the stream, within and across read cycles; the dispatch of a frame
\* directly follows the matcher call that recognised it and precedes every
\* matcher call of the pass at a later offset.
C6_DispatchOrder ==
    /\ \A i, j \in 1..Len(dispatched) :
         i < j => dispatched[i].at + dispatched[i].size <= dispatched[j].at
    /\ \A i \in PubIdx :
         /\ i > 1
         /\ IsMatcherCall(trace[i - 1])
         /\ trace[i - 1].off = trace[i].off /\ trace[i - 1].res = trace[i].res
         /\ \A j \in 1..Len(trace) :
              /\ j < i => trace[j].off <= trace[i].off
              /\ j > i => trace[j].off >= trace[i].off + trace[i].res
    /\ Len(dispatched) >= Cardinality(PubIdx)
    /\ LET d == Len(dispatched) - Cardinality(PubIdx)
       IN  \A n \in 1..Cardinality(PubIdx) :
             \E i \in PubIdx :
               /\ Cardinality({ j \in PubIdx : j <= i }) = n
               /\ dispatched[d + n] = FrameOf(trace[i], base)

\* C6 witness: a frame dispatched by this read after a frame dispatched by
\* an earlier read.
C6_Witness ==
    /\ DataRead
    /\ Cardinality(PubIdx) = 1
    /\ Len(dispatched) = 2

\* C7 (as claimed): no loss, no duplication. While the connection stays
\* open, every complete frame in the bytes received so far has been
\* dispatched exactly once, and the spans of the dispatched frames are
\* pairwise disjoint.
C7_NoLossNoDuplication ==
    clean =>
      /\ \A n \in 1..Len(FramesOfOnePass(Received)) :
           Cardinality({ i \in 1..Len(dispatched) :
                           dispatched[i] = FramesOfOnePass(Received)[n] }) = 1
      /\ \A i, j \in 1..Len(dispatched) :
           i # j => \/ dispatched[i].at + dispatched[i].size <= dispatched[j].at
                    \/ dispatched[j].at + dispatched[j].size <= dispatched[i].at

---------------------------------------------------------------------------
(* C8 .. C10: failure handling of a read cycle (Spec) *)

Calls(names) == { i \in 1..Len(sys) : sys[i].call \in names }

\* the read of the last RunOnce ended in an error other than EAGAIN (< 0) or
\* in a clean close (0)
ReadFailed == rd.cause # "none" /\ (rd.rv = 0 \/ (rd.rv < 0 /\ ~rd.eagain))

\* C8 (as claimed): failure handling of a cycle. After a RunOnce that saw a
\* read error or a close, the descriptor is closed, the handle is -1 and the
\* result is false; after any other RunOnce on a connected driver (live
\* descriptor, connect succeeded) the result is true and the handle is the
\* one it was.
C8_FailureHandling ==
    op = "RunOnce" =>
      /\ ReadFailed =>
           /\ ret = "false"
           /\ client_fd_ = -1
           /\ \E i \in Calls({"close"}) : sys[i].fd = pre.fd
      /\ (pre.fd # -1 /\ pre.st = 0 /\ ~ReadFailed) =>
           /\ ret = "true"
           /\ client_fd_ = pre.fd

\* C9: no internal auto-retry. A RunOnce called after a RunOnce that
\* returned false, with no Connect in between, returns false, reads
\* nothing, dispatches nothing and leaves the handle at -1; and no RunOnce
\* opens a connection.
C9_NoAutoRetry ==
    [][ /\ (ret = "false" /\ op' = "RunOnce") =>
             /\ ret' = "false"
             /\ client_fd_' = -1
             /\ rd' = NoRead
             /\ pos' = pos
             /\ dispatched' = dispatched
             /\ \A i \in 1..Len(sys') : sys'[i].call = "close"
        /\ op' = "RunOnce" =>
             /\ \A i \in 1..Len(sys') :
                  sys'[i].call \notin {"socket", "connect", "open", "tcsetattr"}
             /\ connection_status_' = connection_status_
             /\ client_fd_' \in {client_fd_, -1} ]_vars

\* C9 witness: RunOnce was called on a driver that had dispatched frames and
\* was disconnected by an earlier RunOnce; it did nothing but return false.
C9_Witness ==
    /\ op = "RunOnce"
    /\ pre = [fd |-> -1, st |-> 0]
    /\ ret = "false"
    /\ rd = NoRead
    /\ dispatched # << >>
    /\ client_fd_ = -1

\* C10 (as claimed): no data is not a closed connection. A cycle whose read
\* found no bytes available, on either transport, returns true, closes
\* nothing and leaves the handle as it was.
C10_NoDataKeepsConnection ==
    (op = "RunOnce" /\ rd.cause = "nodata") =>
      /\ ret = "true"
      /\ client_fd_ = pre.fd
      /\ Calls({"close"}) = {}
      /\ trace = << >>

---------------------------------------------------------------------------
(* C11, C12: the connection and its descriptor (Spec) *)

\* C11 (as claimed): serial settings restoration. Whenever an operation
\* releases a serial descriptor, it has re-applied the saved device
\* configuration (options_save_) to that descriptor before the close.
C11_SerialRestoredBeforeClose ==
    type = "SERIAL" =>
      \A i \in Calls({"close"}) :
        sys[i].fd # -1 =>
          \E j \in 1..(i - 1) : sys[j] = [call |-> "tcsetattr_saved", fd |-> sys[i].fd]

\* C12 (as claimed): connection invariant. The driver holds a live
\* descriptor (client_fd_ # -1) only while it is connected
\* (connection_status_ = 0).
C12_DescriptorOnlyWhileConnected ==
    client_fd_ # -1 => connection_status_ = 0


---------------------------------------------------------------------------
(* The outbound encoder *)

\* the i-th reading field of the frame
Dmi(r, i) == IF i = 1 THEN r.dmi1 ELSE IF i = 2 THEN r.dmi2 ELSE IF i = 3 THEN r.dmi3 ELSE r.dmi4

\* the last operation was a WsCallback with a count of readings it encodes
Encoded == op = "WsCallback" /\ Len(speeds) \in {1, 2, 4}

\* C13: mask encoding. After every WsCallback with 1, 2 or 4 readings the
\* mask stored and transmitted is 1, 2051 (bits 0, 1 and 11) or 15, whatever
\* the mask of the earlier calls was, and reading i is stored and
\* transmitted in field dmi i.
C13_MaskEncoding ==
    Encoded =>
      LET m == IF Len(speeds) = 1 THEN 1 ELSE IF Len(speeds) = 2 THEN 2051 ELSE 15
      IN  /\ rawdmi_.mask = m
          /\ SubSeq(message, 29, 32) = << m % 256, m \div 256, 0, 0 >>
          /\ \A i \in 1..Len(speeds) :
               /\ Dmi(rawdmi_, i) = speeds[i]
               /\ SubSeq(message, 9 + 4 * i, 12 + 4 * i) = LE32(speeds[i])

\* a call with one reading after a call with more readings
C13_Witness ==
    /\ Encoded
    /\ Len(speeds) = 1
    /\ rawdmi_.dmi4 # 0
    /\ rawdmi_.mask = 1

\* C14: unsupported reading count. A WsCallback with 0, 3 or more than 4
\* readings writes nothing to the transport and leaves the whole outbound
\* frame as it was.
C14_UnsupportedCountNoOp ==
    [][ (op' = "WsCallback" /\ Len(speeds') \notin {1, 2, 4})
        => (rawdmi_' = rawdmi_ /\ sys' = << >> /\ message' = << >>) ]_vars

\* three readings offered after a frame was encoded
C14_Witness ==
    /\ op = "WsCallback"
    /\ Len(speeds) = 3
    /\ rawdmi_.mask = 2051
    /\ sys = << >>

\* C15: frame integrity and single write. Every WsCallback with 1, 2 or 4
\* readings issues one transport write (send on TCP, write on serial) of
\* one frame of the size of the frame plus 4, which begins with the sync
\* bytes, payload length 20 and message id 2269 and ends with the checksum
\* of all the bytes before it; the header of the frame never changes.
C15_FrameIntegritySingleWrite ==
    /\ rawdmi_.head1 = 170 /\ rawdmi_.head2 = 68 /\ rawdmi_.head3 = 19
    /\ rawdmi_.payloadLen = 20 /\ rawdmi_.msgId = 2269
    /\ Encoded =>
         /\ Len(sys) = 1
         /\ sys[1].call = (IF type = "TCP" THEN "send" ELSE "write")
         /\ Len(message) = Len(Serialize(InitialRawdmi)) + 4
         /\ SubSeq(message, 1, 6) = << 170, 68, 19, 20, 2269 % 256, 2269 \div 256 >>
         /\ SubSeq(message, Len(message) - 3, Len(message))
              = Crc32(SubSeq(message, 1, Len(message) - 4))

\* a frame with four readings written after a frame with other readings
C15_Witness ==
    /\ Encoded
    /\ Len(speeds) = 4
    /\ speeds[1] # speeds[2]
    /\ Len(message) = 36
    /\ sys # << >>

\* C16: time fields. No WsCallback changes the week number or the time of
\* week of the frame, and a transmitted frame carries the values the two
\* fields had before the call.
C16_TimeFieldsUntouched ==
    [][ op' = "WsCallback"
        => /\ rawdmi_'.wno = rawdmi_.wno
           /\ rawdmi_'.tow = rawdmi_.tow
           /\ message' # << >>
                => SubSeq(message', 7, 12) = LE16(rawdmi_.wno) \o LE32(rawdmi_.tow) ]_vars

\* a second frame was transmitted
C16_Witness ==
    /\ Encoded
    /\ Len(speeds) = 2
    /\ rawdmi_.dmi3 # 0
    /\ SubSeq(message, 7, 12) = << 0, 0, 0, 0, 0, 0 >>

---------------------------------------------------------------------------
(* The registry *)

\* InitializeConverters has run
Initialized == op = "Construct" /\ initRet # "none"

\* the converters created for key k, in the order of their creation
CreatedFor(k) == SelectSeq(convLog, LAMBDA c : c.key = k)

\* C17 (as claimed): idempotent registry. After InitializeConverters every
\* key of the registry holds the converter that was created first for it:
\* a name requested again, or TF requested by ODOMETRY after TF exists,
\* creates nothing and replaces nothing.
C17_IdempotentRegistry ==
    Initialized =>
      \A k \in DOMAIN a_converters_ :
        /\ Len(CreatedFor(k)) = 1
        /\ a_converters_[k] = CreatedFor(k)[1].inst

\* the keys a name of the list registers
KeysOf(name) ==
    IF name = ODOMETRY THEN { ODOMETRY, TF }
    ELSE IF name \in { LLH, RAWIMU, CORRIMU, TF } THEN { name }
    ELSE { }

\* C18: unknown names. After InitializeConverters the registry holds a
\* converter under exactly the keys of the known names of the list, those
\* before and after an unknown name alike; the result is true iff the
\* registry is not empty, and the driver is constructed either way.
C18_UnknownNamesNonFatal ==
    Initialized =>
      /\ DOMAIN a_converters_ = UNION { KeysOf(formats[i]) : i \in 1..Len(formats) }
      /\ \A k \in DOMAIN a_converters_ : a_converters_[k] # NullConverter
      /\ (initRet = "true") <=> (DOMAIN a_converters_ # {})

\* an unknown name between two known ones
C18_Witness ==
    /\ Initialized
    /\ Len(formats) = 3
    /\ formats[1] = LLH
    /\ KeysOf(formats[2]) = {}
    /\ formats[3] = RAWIMU
    /\ DOMAIN a_converters_ = { LLH, RAWIMU }

---------------------------------------------------------------------------
(* The dispatch *)

\* C19 (as claimed): dispatch miss. No read cycle changes the set of keys
\* of the registry: a sentence or a binary frame nothing is registered for
\* is dropped and leaves the registry as InitializeConverters built it.
C19_MissIsPureDiscard ==
    [][ op' = "RunOnce" => DOMAIN a_converters_' = DOMAIN a_converters_ ]_vars

\* the bytes of a dispatched frame
BytesOf(f) == SubSeq(wire, f.at + 1, f.at + f.size)

\* the text of a sentence between its start marker and its last '*'
TextOf(f) ==
    LET b == BytesOf(f)
        l == CHOOSE i \in 1..Len(b) : b[i] = Star /\ \A j \in (i + 1)..Len(b) : b[j] # Star
    IN  SubSeq(b, 2, l - 1)

\* the tokens joined by commas
RECURSIVE JoinTokens(_)
JoinTokens(t) ==
    IF Len(t) = 0 THEN << >>
    ELSE IF Len(t) = 1 THEN t[1]
    ELSE t[1] \o << Comma >> \o JoinTokens(Tail(t))

\* the text begins with the tokens "FP" and k
Addresses(text, k) ==
    LET p == FP \o << Comma >> \o k IN
    /\ Len(text) >= Len(p)
    /\ SubSeq(text, 1, Len(p)) = p
    /\ (Len(text) > Len(p) => text[Len(p) + 1] = Comma)

\* the invocations of converters of sentences, in their order
AsciiInvoked == SelectSeq(invoked, LAMBDA v : v.kind = "ascii")

\* the dispatched sentences that address a converter of the registry built
\* at start-up, in their order
AsciiHits ==
    SelectSeq(dispatched,
              LAMBDA f : f.kind = "NMEA"
                         /\ \E k \in DOMAIN Registered(formats).reg : Addresses(TextOf(f), k))

\* C20: ascii dispatch. The invocations of converters are, in order, one
\* for each dispatched sentence with first token "FP" and second token a
\* key of the registry; the converter invoked is the one under that key and
\* it is given the text between the marker and the last '*' cut at the
\* commas.
C20_AsciiDispatch ==
    /\ Len(AsciiInvoked) = Len(AsciiHits)
    /\ \A i \in 1..Len(AsciiInvoked) :
         LET v == AsciiInvoked[i]
             f == AsciiHits[i]
         IN  /\ v.at = f.at
             /\ JoinTokens(v.tokens) = TextOf(f)
             /\ \A j \in 1..Len(v.tokens) : \A x \in 1..Len(v.tokens[j]) : v.tokens[j][x] # Comma
             /\ v.tokens[1] = FP
             /\ v.tokens[2] = v.key
             /\ v.conv = Registered(formats).reg[v.key]

\* the sentence "$FP,TF,1*00" was dispatched and converted
C20_Witness ==
    /\ op = "RunOnce"
    /\ Len(AsciiInvoked) = 1
    /\ AsciiInvoked[1].tokens = << FP, TF, << 49 >> >>
    /\ AsciiInvoked[1].conv.cls = "TfConverter"

---------------------------------------------------------------------------
(* Framing anomalies and the binary dispatch *)

\* C21 (as claimed): framing anomalies. A read cycle that received data
\* ends without an exception, has scanned the whole read, and returns true,
\* whatever sentences and damaged binary frames the read holds.
C21_FramingNeverAborts ==
    DataRead =>
      /\ ret = "true"
      /\ trace = ScanLoop(Chunk, 0, Len(Chunk))

\* the invocations of observers of binary frames, in their order
BinaryInvoked == SelectSeq(invoked, LAMBDA v : v.kind = "binary")

\* the calls of observers 1..n for the frame at offset at
RECURSIVE ObserverCalls(_, _)
ObserverCalls(n, at) ==
    IF n = 0 THEN << >> ELSE ObserverCalls(n - 1, at) \o << [id |-> n, at |-> at] >>

\* the calls of observers the dispatched frames fs ask for
RECURSIVE ExpectedCalls(_)
ExpectedCalls(fs) ==
    IF fs = << >> THEN << >>
    ELSE LET f == Head(fs)
             b == BytesOf(f)
         IN  ( IF f.kind = "NOV" /\ b[5] + 256 * b[6] = 1429
               THEN ObserverCalls(bestgnsspos_obs_, f.at)
               ELSE << >> )
             \o ExpectedCalls(Tail(fs))

---------------------------------------------------------------------------
(* The serial connection *)

\* the last operation was a Connect, of the constructor or of the owner
JustConnected == op \in {"Construct", "Connect"}

---------------------------------------------------------------------------
(* The registry, continued *)

\* the keys of the registry that hold a converter
ConverterKeys == { k \in DOMAIN a_converters_ : a_converters_[k] # NullConverter }

\* C24: dependency closure. Once InitializeConverters has run, a registry
\* with a converter for ODOMETRY has one for TF, and only the five known
\* names have a converter.
C24_DependencyClosure ==
    Initialized =>
      /\ ODOMETRY \in ConverterKeys => TF \in ConverterKeys
      /\ ConverterKeys \subseteq { ODOMETRY, TF, LLH, RAWIMU, CORRIMU }

\* ODOMETRY was requested, TF was not, and both are registered
C24_Witness ==
    /\ Initialized
    /\ formats # << >>
    /\ \A i \in 1..Len(formats) : formats[i] \in { ODOMETRY, << 88, 88 >> }
    /\ ConverterKeys = { ODOMETRY, TF }

---------------------------------------------------------------------------
(* The outbound encoder, continued *)

\* C25 (as claimed): no leakage between calls. In every frame WsCallback
\* transmits, the reading fields the call did not fill (dmi2..dmi4 for one
\* reading, dmi3..dmi4 for two) are zero.
C25_NoLeakBetweenCalls ==
    Encoded =>
      \A i \in (Len(speeds) + 1)..4 :
        /\ Dmi(rawdmi_, i) = 0
        /\ SubSeq(message, 9 + 4 * i, 12 + 4 * i) = << 0, 0, 0, 0 >>

\* C26 (as claimed): writes only to a live connection. WsCallback issues
\* its send / write only on a descriptor that is open and connected: none
\* after RunOnce closed the connection or after a Connect that failed.
C26_WriteOnlyWhenConnected ==
    op = "WsCallback" =>
      \A i \in Calls({"send", "write"}) :
        /\ sys[i].fd # -1
        /\ connection_status_ = 0

---------------------------------------------------------------------------
(* The conversions to ROS *)

\* C27 (as claimed): fix status in three tiers. The message of
\* OdomToNavSatFix has, for s the larger of the two GNSS statuses:
\* STATUS_NO_FIX / SERVICE_NONE for s < FIX_TYPE_S2D, STATUS_FIX /
\* SERVICE_ALL for FIX_TYPE_S2D <= s < FIX_TYPE_RTK_FLOAT, STATUS_GBAS_FIX /
\* SERVICE_ALL for s >= FIX_TYPE_RTK_FLOAT.
C27_FixStatusTiers ==
    (rosCall.fn = "OdomToNavSatFix" /\ rosOut # << >>) =>
      LET s == IF rosCall.gnss1_status >= rosCall.gnss2_status
               THEN rosCall.gnss1_status ELSE rosCall.gnss2_status
      IN  /\ s < 4 => (rosOut[1].status = "STATUS_NO_FIX" /\ rosOut[1].service = "SERVICE_NONE")
          /\ (s >= 4 /\ s < 7) =>
               (rosOut[1].status = "STATUS_FIX" /\ rosOut[1].service = "SERVICE_ALL")
          /\ s >= 7 => (rosOut[1].status = "STATUS_GBAS_FIX" /\ rosOut[1].service = "SERVICE_ALL")

=========================================================================
